---- MODULE Spec2Model ----
(***************************************************************************)
(* warthog::memory::cchunk and warthog::memory::cpool                      *)
(* (src/include/warthog/memory/cpool.h) as a state machine.                *)
(*                                                                         *)
(* A run drives either one stand-alone cchunk (harness = "cchunk") or one  *)
(* cpool (harness = "cpool") through its public member functions.          *)
(*                                                                         *)
(* Numbers.  char*, size_t and ptrdiff_t are 64 bits wide and `unsigned`   *)
(* is 32 bits wide.  A 64-bit quantity v is held as the triple             *)
(* <<w, h, l>> with v = w * 2^32 + h * 2^16 + l, 0 <= h, l < 2^16; w is    *)
(* the signed representative of the upper 32 bits (w < 0 stands for the    *)
(* two's complement pattern w + 2^32).  Sizes that stay small (obj_size_,  *)
(* pool_size_, num_chunks_) are plain naturals.                            *)
(***************************************************************************)
EXTENDS Integers, Sequences, FiniteSets, TLC

(***************************************************************************)
(* 64-bit arithmetic as the compiled code performs it                      *)
(***************************************************************************)
Radix == 65536

\* a small natural as a 64-bit quantity (size_t promotion)
Wd(n) == <<0, n \div Radix, n % Radix>>

NULL == <<0, 0, 0>>

\* pointer + size_t, size_t + size_t
WdAdd(a, b) ==
    LET l == a[3] + b[3]
        h == a[2] + b[2] + (l \div Radix)
    IN  <<a[1] + b[1] + (h \div Radix), h % Radix, l % Radix>>

\* pointer - pointer (ptrdiff_t)
WdSub(a, b) ==
    LET l == a[3] - b[3]
        h == a[2] - b[2] + (l \div Radix)
    IN  <<a[1] - b[1] + (h \div Radix), h % Radix, l % Radix>>

\* signed 64-bit comparison a < b; also the comparison of two pointers
WdLess(a, b) ==
    \/ a[1] < b[1]
    \/ a[1] = b[1] /\ a[2] < b[2]
    \/ a[1] = b[1] /\ a[2] = b[2] /\ a[3] < b[3]

\* (unsigned) x : the low 32 bits
Unsigned(x) == <<0, x[2], x[3]>>

\* size_t comparison a < b of a converted ptrdiff_t a with a small size b:
\* a negative difference converts to a + 2^64, above every size
SizeLess(a, b) == a[1] >= 0 /\ WdLess(a, b)

\* (int) x : the low 32 bits read as a signed number
IntCast(x) ==
    IF x[2] >= Radix \div 2 THEN (x[2] - Radix) * Radix + x[3]
    ELSE x[2] * Radix + x[3]

(***************************************************************************)
(* Program constants and the bounds of the model                           *)
(***************************************************************************)
DEFAULT_CHUNK_SIZE == 1024 * 1024

\* number of heap blocks operator new can place a chunk buffer in
MaxHeapBlocks == 3
\* largest byte budget handed to a stand-alone cchunk
MaxBudget == 8
\* number of past calls on the stand-alone cchunk that are remembered
HistLen == 4
\* the count of allocate() calls on a pool saturates here
MaxAllocs == 2 * MaxHeapBlocks + 3

(***************************************************************************)
(* The heap.  operator new[] places a chunk buffer at the start of any     *)
(* block that is not in use.  Blocks are 4 MiB apart inside one 4 GiB      *)
(* window, and a 64-bit address space has more than one window: block i    *)
(* and block i + 1 (i even) have the same low 32 address bits.             *)
(***************************************************************************)
HeapAddr(i) == <<1 + (i % 2), 256 + 64 * (i \div 2), 0>>

HeapAddrs == { HeapAddr(i) : i \in 0 .. MaxHeapBlocks - 1 }

\* addresses that never belong to a chunk buffer: one 4 GiB below block 0
\* and one 2 MiB above it (inside the gap between two blocks)
ForeignAddrs == { <<0, 256, 0>>, <<1, 288, 0>> }

\* the values an indeterminate pointer or an out-of-bounds read can yield
\* (a finite sample of the 2^64 possible ones): null and a heap address
ArbAddrs == { NULL, HeapAddr(0) }

\* an element of chunks_, or current_chunk_, that was never written
Indeterminate == [indeterminate |-> TRUE]

(***************************************************************************)
(* cchunk                                                                  *)
(*  freed_stack_ holds the entries 0 .. stack_size_ - 1 of the array, so   *)
(*  stack_size_ is its length; freed_len is the allocated length of the    *)
(*  array (an index >= freed_len is outside it).                           *)
(***************************************************************************)
PoolSizeNoFloor(obj_size, pool_size) == pool_size - (pool_size % obj_size)
PoolSizeRoundUp(obj_size, pool_size) ==
    IF pool_size % obj_size = 0 /\ pool_size > 0 THEN pool_size
    ELSE pool_size - (pool_size % obj_size) + obj_size
PoolSize(obj_size, pool_size) ==
    LET rounded == pool_size - (pool_size % obj_size)
    IN  IF rounded < obj_size THEN obj_size ELSE rounded

cchunk(obj_size, pool_size, mem) ==
    LET ps == PoolSize(obj_size, pool_size)
    IN  [ obj_size_    |-> obj_size,
          pool_size_   |-> ps,
          mem_         |-> mem,
          next_        |-> mem,
          max_         |-> WdAdd(mem, Wd(ps)),
          freed_stack_ |-> << >>,
          freed_len    |-> ps \div obj_size ]

stack_size_(c) == Len(c.freed_stack_)

cchunk_reclaimKeepStack(c) == [c EXCEPT !.next_ = c.mem_]
cchunk_reclaim(c) == [c EXCEPT !.next_ = c.mem_, !.freed_stack_ = << >>]

\* the entry allocate() pops
PopIndexBottom(c) == 1
PopIndex(c) == stack_size_(c)

\* the stack after a pop of entry i
StackWithout(s, i) == SubSeq(s, 1, i - 1) \o SubSeq(s, i + 1, Len(s))

\* allocate(): the set of possible outcomes [c, ret, wild].  A pop of an
\* entry that was written outside the array reads back what was written
\* or anything else (wild: the value returned is such an arbitrary one).
cchunk_allocateNoAdvance(c) ==
    IF WdLess(c.next_, c.max_)
    THEN { [c |-> c, ret |-> c.next_, wild |-> FALSE] }
    ELSE { [c |-> c, ret |-> NULL, wild |-> FALSE] }
cchunk_allocatePopFirst(c) ==
    IF stack_size_(c) > 0
    THEN { [c |-> [c EXCEPT !.freed_stack_ = StackWithout(c.freed_stack_, stack_size_(c))],
            ret |-> WdAdd(c.mem_, c.freed_stack_[stack_size_(c)]), wild |-> FALSE] }
    ELSE IF WdLess(c.next_, c.max_)
    THEN { [c |-> [c EXCEPT !.next_ = WdAdd(c.next_, Wd(c.obj_size_))],
            ret |-> c.next_, wild |-> FALSE] }
    ELSE { [c |-> c, ret |-> NULL, wild |-> FALSE] }
cchunk_allocatePopKeeps(c) ==
    IF WdLess(c.next_, c.max_)
    THEN { [c |-> [c EXCEPT !.next_ = WdAdd(c.next_, Wd(c.obj_size_))],
            ret |-> c.next_, wild |-> FALSE] }
    ELSE IF stack_size_(c) > 0
    THEN { [c |-> c, ret |-> WdAdd(c.mem_, c.freed_stack_[stack_size_(c)]),
            wild |-> FALSE] }
    ELSE { [c |-> c, ret |-> NULL, wild |-> FALSE] }
cchunk_allocate(c) ==
    IF WdLess(c.next_, c.max_)
    THEN { [c |-> [c EXCEPT !.next_ = WdAdd(c.next_, Wd(c.obj_size_))],
            ret |-> c.next_, wild |-> FALSE] }
    ELSE IF stack_size_(c) > 0
    THEN LET i   == PopIndex(c)
             c2  == [c EXCEPT !.freed_stack_ = StackWithout(c.freed_stack_, i)]
             val == WdAdd(c.mem_, c.freed_stack_[i])
         IN  IF stack_size_(c) <= c.freed_len
             THEN { [c |-> c2, ret |-> val, wild |-> FALSE] }
             ELSE { [c |-> c2, ret |-> val, wild |-> FALSE] }
                  \cup { [c |-> c2, ret |-> r, wild |-> TRUE] : r \in ArbAddrs }
    ELSE { [c |-> c, ret |-> NULL, wild |-> FALSE] }

\* the assert of deallocate() and contains(): mem_ >= addr
AssertHolds(c, addr) == ~ WdLess(c.mem_, addr)

\* deallocate(addr) past its assert: push (size_t)(addr - mem_).  A push
\* at an index >= freed_len writes outside the array; the entry is kept
\* here and read back as above.
cchunk_deallocate(c, addr) ==
    [c EXCEPT !.freed_stack_ = Append(c.freed_stack_, WdSub(addr, c.mem_))]

\* contains(addr) past its assert
cchunk_contains(c, addr) ==
    SizeLess(Unsigned(WdSub(addr, c.mem_)), Wd(c.pool_size_))

\* whether addr lies in [mem_, mem_ + pool_size_) (not a member function:
\* the range the buffer really occupies)
InBuffer(c, addr) == ~ WdLess(addr, c.mem_) /\ WdLess(addr, c.max_)

(***************************************************************************)
(* cpool.  A pool is the record p of its data members; chunks_ holds the   *)
(* entries 0 .. num_chunks_ - 1 of the array (1-based here), each a cchunk *)
(* or Indeterminate; current_chunk_ is the 1-based index of the chunk it   *)
(* points to, 0 when the pointer is indeterminate; heap is the set of      *)
(* buffer addresses operator new has handed out.                           *)
(***************************************************************************)
\* a call through an element of chunks_ or through current_chunk_ that
\* may be indeterminate: the call crashes (fault) or yields anything
chunk_allocate(e) ==
    IF e = Indeterminate
    THEN { [c |-> e, ret |-> r, fault |-> FALSE, wild |-> TRUE] : r \in ArbAddrs }
         \cup { [c |-> e, ret |-> NULL, fault |-> TRUE, wild |-> FALSE] }
    ELSE { [c |-> o.c, ret |-> o.ret, fault |-> FALSE, wild |-> o.wild]
           : o \in cchunk_allocate(e) }

ChunkAt(p, i) == IF i = 0 THEN Indeterminate ELSE p.chunks_[i]

WithChunk(p, i, e) ==
    IF i = 0 THEN p ELSE [p EXCEPT !.chunks_[i] = e]

\* the limit after the array was grown
BigMax(max_chunks) == WdAdd(max_chunks, max_chunks)

\* add_chunk(pool_size); mem is where operator new places the buffer, kept
\* whether a pointer stored outside the array is read back later
add_chunk(p, pool_size, mem, kept) ==
    LET c == cchunk(p.obj_size_, pool_size, mem)
    IN  IF WdLess(Wd(p.num_chunks_), p.max_chunks_)
        THEN [p EXCEPT !.chunks_      = Append(p.chunks_, c),
                       !.num_chunks_  = p.num_chunks_ + 1,
                       !.heap         = p.heap \cup {mem}]
        ELSE LET big_max    == BigMax(p.max_chunks_)
                 big_chunks == [ i \in 1 .. p.num_chunks_ |->
                                   IF WdLess(Wd(i - 1), p.max_chunks_)
                                   THEN p.chunks_[i] ELSE Indeterminate ]
                 e == IF WdLess(Wd(p.num_chunks_), big_max) \/ kept
                      THEN c ELSE Indeterminate
             IN  [p EXCEPT !.chunks_      = Append(big_chunks, e),
                           !.max_chunks_  = big_max,
                           !.num_chunks_  = p.num_chunks_ + 1,
                           !.heap         = p.heap \cup {mem}]

\* a pointer read from chunks_[i] (1-based)
PointerTo(p, i) ==
    IF i >= 1 /\ i <= p.num_chunks_ /\ p.chunks_[i] # Indeterminate THEN i ELSE 0

ChunkSize(obj_size) ==
    IF obj_size > DEFAULT_CHUNK_SIZE THEN obj_size ELSE DEFAULT_CHUNK_SIZE

\* the loop of init(): one add_chunk per element of mems
RECURSIVE InitLoop(_, _)
InitLoop(p, mems) ==
    IF mems = << >> THEN p
    ELSE InitLoop(add_chunk(p, p.CHUNK_SIZE_, Head(mems), TRUE), Tail(mems))

\* the number of times the loop of init() runs
InitCount(max_chunks) ==
    IF IntCast(max_chunks) > 0 THEN IntCast(max_chunks) ELSE 0

\* cpool(obj_size, max_chunks), with the placement of its buffers
cpool(obj_size, max_chunks, mems) ==
    LET p0 == [ obj_size_      |-> obj_size,
                CHUNK_SIZE_    |-> ChunkSize(obj_size),
                max_chunks_    |-> max_chunks,
                num_chunks_    |-> 0,
                chunks_        |-> << >>,
                current_chunk_ |-> 0,
                heap           |-> {} ]
        p1 == InitLoop(p0, mems)
    IN  [p1 EXCEPT !.current_chunk_ = PointerTo(p1, 1)]

\* the loop of allocate() from index i on: [p, ret, fault, wild]
RECURSIVE ScanFrom(_, _)
ScanFrom(p, i) ==
    IF i > p.num_chunks_
    THEN { [p |-> p, ret |-> NULL, fault |-> FALSE, wild |-> FALSE] }
    ELSE UNION {
           IF o.fault
           THEN { [p |-> p, ret |-> NULL, fault |-> TRUE, wild |-> FALSE] }
           ELSE IF o.ret # NULL
           THEN { [p |-> [WithChunk(p, i, o.c) EXCEPT !.current_chunk_ = PointerTo(p, i)],
                   ret |-> o.ret, fault |-> FALSE, wild |-> o.wild] }
           ELSE ScanFrom(WithChunk(p, i, o.c), i + 1)
           : o \in chunk_allocate(p.chunks_[i]) }

\* the end of allocate(): add a chunk and allocate from it.  mem = NULL
\* says that the heap has no block left (operator new throws; no outcome).
GrowAndAllocate(p, mem, kept) ==
    IF mem = NULL THEN {}
    ELSE LET p1 == add_chunk(p, p.CHUNK_SIZE_, mem, kept)
             p2 == [p1 EXCEPT !.current_chunk_ = PointerTo(p1, p1.num_chunks_)]
         IN  { [p |-> WithChunk(p2, p2.current_chunk_, o.c),
                ret |-> o.ret, fault |-> o.fault, wild |-> o.wild]
               : o \in chunk_allocate(ChunkAt(p2, p2.current_chunk_)) }

\* allocate(): the set of outcomes [p, ret, fault, wild]; wild says that
\* the address returned is an arbitrary value (null excepted: the code
\* tests for it and goes on)
cpool_allocate(p, mem, kept) ==
    UNION {
      IF o.fault
      THEN { [p |-> p, ret |-> NULL, fault |-> TRUE, wild |-> FALSE] }
      ELSE IF o.ret # NULL
      THEN { [p |-> WithChunk(p, p.current_chunk_, o.c), ret |-> o.ret,
              fault |-> FALSE, wild |-> o.wild] }
      ELSE UNION {
             IF s.fault \/ s.ret # NULL THEN {s}
             ELSE GrowAndAllocate(s.p, mem, kept)
             : s \in ScanFrom(WithChunk(p, p.current_chunk_, o.c), 1) }
      : o \in chunk_allocate(ChunkAt(p, p.current_chunk_)) }

\* reclaim(): fault says that a call through an indeterminate element
\* crashed; otherwise such a call changes no chunk of the pool
cpool_reclaim(p) ==
    [p EXCEPT !.chunks_ = [ i \in 1 .. p.num_chunks_ |->
                              IF p.chunks_[i] = Indeterminate THEN Indeterminate
                              ELSE cchunk_reclaim(p.chunks_[i]) ]]

HasIndeterminate(p) == \E i \in 1 .. p.num_chunks_ : p.chunks_[i] = Indeterminate

\* the range test of deallocate() on chunk c
Claims(c, addr) == SizeLess(Unsigned(WdSub(addr, c.mem_)), Wd(c.pool_size_))

\* the loop of deallocate(addr) from index i on: the set of outcomes
\* [p, end], end = "ok" (returned), "abort" (the assert of
\* cchunk::deallocate failed; debug build only) or "fault" (a call through
\* an indeterminate element crashed).  Such a call may also return
\* anything: the element accepts addr or not.
RECURSIVE DeallocateFrom(_, _, _, _)
DeallocateFrom(p, addr, i, ndebug) ==
    IF i > p.num_chunks_
    THEN { [p |-> p, end |-> "ok"] }
    ELSE IF p.chunks_[i] = Indeterminate
    THEN { [p |-> p, end |-> "fault"], [p |-> p, end |-> "ok"] }
         \cup DeallocateFrom(p, addr, i + 1, ndebug)
    ELSE IF Claims(p.chunks_[i], addr)
    THEN IF ~ ndebug /\ ~ AssertHolds(p.chunks_[i], addr)
         THEN { [p |-> p, end |-> "abort"] }
         ELSE { [p |-> [p EXCEPT !.chunks_[i] = cchunk_deallocate(p.chunks_[i], addr)],
                 end |-> "ok"] }
    ELSE DeallocateFrom(p, addr, i + 1, ndebug)

cpool_deallocate(p, addr, ndebug) == DeallocateFrom(p, addr, 1, ndebug)

(***************************************************************************)
(* The state                                                               *)
(***************************************************************************)
VARIABLES
    harness,        \* "cchunk": a stand-alone chunk is driven; "cpool": a pool
    NDEBUG,         \* TRUE: built with NDEBUG (release), FALSE: debug build
    status,         \* "run"; "abort" (an assert failed), "fault" (a crash),
                    \* "wild" (the last call returned an arbitrary address),
                    \* "misuse" (the last call broke the caller's side of
                    \* the contract): the run is not followed further
    ck,             \* the stand-alone cchunk
    obj_size_, CHUNK_SIZE_, max_chunks_, num_chunks_, chunks_, current_chunk_,
    heap,           \* buffer addresses operator new has handed out
    live,           \* addresses the caller holds: returned and not given back
    last,           \* the last call: [op, arg, ret, dup, freed]
    freed_log,      \* cchunk harness: addresses given back and not yet
                    \* returned again, in the order of their deallocation
    hist,           \* cchunk harness: the last HistLen calls
    budget,         \* cchunk harness: the pool_size the chunk was built with
    init_chunks,    \* cpool harness: num_chunks_ when the constructor returned
    allocs          \* cpool harness: number of allocate() calls so far, or
                    \* -1 once deallocate() or reclaim() was called

vars == << harness, NDEBUG, status, ck, obj_size_, CHUNK_SIZE_, max_chunks_,
           num_chunks_, chunks_, current_chunk_, heap, live, last,
           freed_log, hist, budget, init_chunks, allocs >>

poolVars == << obj_size_, CHUNK_SIZE_, max_chunks_, num_chunks_, chunks_,
               current_chunk_, heap, init_chunks, allocs >>

chunkVars == << ck, freed_log, hist, budget >>

\* the pool of the current state
Pool == [ obj_size_      |-> obj_size_,
          CHUNK_SIZE_    |-> CHUNK_SIZE_,
          max_chunks_    |-> max_chunks_,
          num_chunks_    |-> num_chunks_,
          chunks_        |-> chunks_,
          current_chunk_ |-> current_chunk_,
          heap           |-> heap ]

SetPool(p) ==
    /\ obj_size_'      = p.obj_size_
    /\ CHUNK_SIZE_'    = p.CHUNK_SIZE_
    /\ max_chunks_'    = p.max_chunks_
    /\ num_chunks_'    = p.num_chunks_
    /\ chunks_'        = p.chunks_
    /\ current_chunk_' = p.current_chunk_
    /\ heap'           = p.heap

NoCall == [op |-> "none", arg |-> NULL, ret |-> NULL, dup |-> FALSE, freed |-> 0]

(***************************************************************************)
(* Construction                                                            *)
(***************************************************************************)
\* slot sizes of the pools: two slots per 1 MiB chunk (with a remainder),
\* and a slot larger than DEFAULT_CHUNK_SIZE
ObjSizes == { 400000, DEFAULT_CHUNK_SIZE + 1 }

\* max_chunks arguments: 0, 1, 2 and 2^31 (which does not fit in an int)
CtorMaxChunks == { Wd(0), Wd(1), Wd(2), <<0, Radix \div 2, 0>> }

\* slot sizes of the stand-alone chunk
CkObjSizes == { 2, 3 }

\* the ways operator new can place n buffers
Placements(n) ==
    { m \in [1 .. n -> HeapAddrs] : \A i, j \in 1 .. n : i # j => m[i] # m[j] }

InitPool ==
    /\ harness = "cpool"
    /\ NDEBUG \in BOOLEAN
    /\ status = "run"
    /\ \E obj \in ObjSizes, mc \in CtorMaxChunks :
         \E mems \in Placements(InitCount(mc)) :
           LET p == cpool(obj, mc, mems)
           IN  /\ obj_size_      = p.obj_size_
               /\ CHUNK_SIZE_    = p.CHUNK_SIZE_
               /\ max_chunks_    = p.max_chunks_
               /\ num_chunks_    = p.num_chunks_
               /\ chunks_        = p.chunks_
               /\ current_chunk_ = p.current_chunk_
               /\ heap           = p.heap
               /\ init_chunks    = p.num_chunks_
    /\ allocs = 0
    /\ ck = Indeterminate
    /\ budget = 0
    /\ freed_log = << >>
    /\ hist = << >>
    /\ live = {}
    /\ last = NoCall

InitChunk ==
    /\ harness = "cchunk"
    /\ NDEBUG \in BOOLEAN
    /\ status = "run"
    /\ \E obj \in CkObjSizes, b \in 0 .. MaxBudget :
         /\ ck = cchunk(obj, b, HeapAddr(0))
         /\ budget = b
    /\ freed_log = << >>
    /\ hist = << >>
    /\ obj_size_ = 0
    /\ CHUNK_SIZE_ = 0
    /\ max_chunks_ = Wd(0)
    /\ num_chunks_ = 0
    /\ chunks_ = << >>
    /\ current_chunk_ = 0
    /\ heap = {HeapAddr(0)}
    /\ init_chunks = 0
    /\ allocs = 0
    /\ live = {}
    /\ last = NoCall

Init == InitPool \/ InitChunk

(***************************************************************************)
(* Calls on the pool                                                       *)
(***************************************************************************)
FreeBlocks == HeapAddrs \ heap

\* the number of entries on the free stacks of the chunks in cs
FreedCount(cs) ==
    LET F[i \in 0 .. Len(cs)] ==
          IF i = 0 THEN 0
          ELSE F[i - 1] + (IF cs[i] = Indeterminate THEN 0 ELSE stack_size_(cs[i]))
    IN  F[Len(cs)]

\* the record of a call: dup says that the address returned was held by
\* the caller already, freed is the number of free-stack entries before it
Call(op, arg, ret) ==
    [ op    |-> op,
      arg   |-> arg,
      ret   |-> ret,
      dup   |-> ret \in live,
      freed |-> IF harness = "cpool" THEN FreedCount(chunks_) ELSE stack_size_(ck) ]

Allocate ==
    /\ harness = "cpool" /\ status = "run"
    /\ \E mem \in (IF FreeBlocks = {} THEN {NULL} ELSE FreeBlocks), kept \in BOOLEAN :
         \E o \in cpool_allocate(Pool, mem, kept) :
           IF o.fault
           THEN /\ status' = "fault"
                /\ last' = Call("allocate", NULL, NULL)
                /\ UNCHANGED << poolVars, live >>
           ELSE /\ SetPool(o.p)
                /\ last' = Call("allocate", NULL, o.ret)
                /\ live' = IF o.ret = NULL THEN live ELSE live \cup {o.ret}
                /\ allocs' = IF allocs >= 0 /\ allocs < MaxAllocs THEN allocs + 1 ELSE allocs
                /\ status' = IF o.wild /\ o.ret # NULL THEN "wild" ELSE status
                /\ UNCHANGED init_chunks
    /\ UNCHANGED << harness, NDEBUG, chunkVars >>

\* deallocate(addr); after says how the run goes on when the call returns
DeallocateCall(addr, after) ==
    \E o \in cpool_deallocate(Pool, addr, NDEBUG) :
      /\ last' = Call("deallocate", addr, NULL)
      /\ IF o.end = "ok"
         THEN /\ SetPool(o.p)
              /\ live' = live \ {addr}
              /\ allocs' = -1
              /\ status' = after
              /\ UNCHANGED init_chunks
         ELSE /\ status' = o.end
              /\ UNCHANGED << poolVars, live >>

\* deallocate(addr) of an address the caller holds
Deallocate ==
    /\ harness = "cpool" /\ status = "run"
    /\ \E addr \in live : DeallocateCall(addr, "run")
    /\ UNCHANGED << harness, NDEBUG, chunkVars >>

\* whether addr lies in a buffer operator new has handed out
InHeap(addr) ==
    \E b \in heap :
      ~ WdLess(addr, b) /\ WdLess(addr, WdAdd(b, Wd(PoolSize(obj_size_, CHUNK_SIZE_))))

\* deallocate(addr) of an address outside every chunk of the pool
DeallocateForeign ==
    /\ harness = "cpool" /\ status = "run"
    /\ \E addr \in (ForeignAddrs \cup HeapAddrs) \ live :
         /\ ~ InHeap(addr)
         /\ DeallocateCall(addr, "misuse")
    /\ UNCHANGED << harness, NDEBUG, chunkVars >>

\* reclaim(); the caller holds no address afterwards, whatever came before
Reclaim ==
    /\ harness = "cpool" /\ status \in {"run", "misuse", "wild"}
    /\ last' = Call("reclaim", NULL, NULL)
    /\ \/ /\ SetPool(cpool_reclaim(Pool))
          /\ live' = {}
          /\ allocs' = -1
          /\ status' = "run"
          /\ UNCHANGED init_chunks
       \/ /\ HasIndeterminate(Pool)
          /\ status' = "fault"
          /\ UNCHANGED << poolVars, live >>
    /\ UNCHANGED << harness, NDEBUG, chunkVars >>

(***************************************************************************)
(* Calls on the stand-alone chunk                                          *)
(***************************************************************************)
Remember(h, e) == IF Len(h) < HistLen THEN Append(h, e) ELSE Append(Tail(h), e)

\* a remembered call: full says that the bump cursor was at max_ before
\* it, recent is the address most recently given back and not yet
\* returned again before it (NULL: none)
Entry(op, addr) ==
    [ op     |-> op,
      addr   |-> addr,
      full   |-> ~ WdLess(ck.next_, ck.max_),
      recent |-> IF freed_log = << >> THEN NULL ELSE freed_log[Len(freed_log)] ]

Without(s, a) ==
    LET F[i \in 0 .. Len(s)] ==
          IF i = 0 THEN << >>
          ELSE IF s[i] = a THEN F[i - 1] ELSE Append(F[i - 1], s[i])
    IN  F[Len(s)]

CkAllocate ==
    /\ harness = "cchunk" /\ status = "run"
    /\ \E o \in cchunk_allocate(ck) :
         /\ ck' = o.c
         /\ last' = Call("allocate", NULL, o.ret)
         /\ live' = IF o.ret = NULL THEN live ELSE live \cup {o.ret}
         /\ freed_log' = Without(freed_log, o.ret)
         /\ hist' = Remember(hist, Entry("allocate", o.ret))
         /\ status' = IF o.wild /\ o.ret # NULL THEN "wild" ELSE status
    /\ UNCHANGED << harness, NDEBUG, poolVars, budget >>

\* deallocate(addr); after says how the run goes on when the call returns
CkDeallocateCall(addr, after) ==
    /\ last' = Call("deallocate", addr, NULL)
    /\ IF ~ NDEBUG /\ ~ AssertHolds(ck, addr)
       THEN /\ status' = "abort"
            /\ UNCHANGED << ck, live, freed_log, hist >>
       ELSE /\ ck' = cchunk_deallocate(ck, addr)
            /\ live' = live \ {addr}
            /\ freed_log' = Append(Without(freed_log, addr), addr)
            /\ hist' = Remember(hist, Entry("deallocate", addr))
            /\ status' = after

\* deallocate(addr) of an address the caller holds
CkDeallocate ==
    /\ harness = "cchunk" /\ status = "run"
    /\ \E addr \in live : CkDeallocateCall(addr, "run")
    /\ UNCHANGED << harness, NDEBUG, poolVars, budget >>

\* the addresses given back and not yet returned again
FreedAddrs == { freed_log[i] : i \in 1 .. Len(freed_log) }

\* deallocate(addr) of a slot that is on the free stack already, or of an
\* address outside the buffer
CkDeallocateMisuse ==
    /\ harness = "cchunk" /\ status = "run"
    /\ \E addr \in (FreedAddrs \cup { a \in ForeignAddrs : ~ InBuffer(ck, a) }) \ live :
         CkDeallocateCall(addr, "misuse")
    /\ UNCHANGED << harness, NDEBUG, poolVars, budget >>

\* contains(addr) of an address the caller holds; the chunk is not changed
CkContains ==
    /\ harness = "cchunk" /\ status = "run"
    /\ \E addr \in live :
         /\ last' = Call("contains", addr, NULL)
         /\ status' = IF ~ NDEBUG /\ ~ AssertHolds(ck, addr) THEN "abort" ELSE status
    /\ UNCHANGED << harness, NDEBUG, poolVars, chunkVars, live >>

CkReclaim ==
    /\ harness = "cchunk" /\ status \in {"run", "misuse", "wild"}
    /\ ck' = cchunk_reclaim(ck)
    /\ last' = Call("reclaim", NULL, NULL)
    /\ live' = {}
    /\ freed_log' = << >>
    /\ hist' = Remember(hist, Entry("reclaim", NULL))
    /\ status' = "run"
    /\ UNCHANGED << harness, NDEBUG, poolVars, budget >>

Next ==
    \/ Allocate
    \/ Deallocate
    \/ DeallocateForeign
    \/ Reclaim
    \/ CkAllocate
    \/ CkDeallocate
    \/ CkDeallocateMisuse
    \/ CkContains
    \/ CkReclaim

Spec == Init /\ [][Next]_vars

(***************************************************************************)
(* Properties                                                              *)
(***************************************************************************)
\* the last call returned to its caller
Returned == status \in {"run", "wild"}

\* the chunks of the pool (the determinate elements of chunks_)
Chunks == { i \in 1 .. num_chunks_ : chunks_[i] # Indeterminate }

\* floor(b / s), or 1 if that is 0
SlotsOf(s, b) == IF b \div s = 0 THEN 1 ELSE b \div s

\* C1: under ownership-respecting use of a pool (only held addresses are
\* deallocated, no reclaim in between), allocate() never returns an
\* address the caller still holds.
C1_NoLiveAddressReturnedAgain ==
    (harness = "cpool" /\ last.op = "allocate" /\ Returned) => ~ last.dup

\* C2: cpool::allocate() never returns null; the address it returns lies
\* inside the buffer of one of the pool's chunks.
C2_AllocateReturnsSlotOfAChunk ==
    (harness = "cpool" /\ last.op = "allocate" /\ Returned)
      => /\ last.ret # NULL
         /\ \E i \in Chunks : InBuffer(chunks_[i], last.ret)

\* C3: the pool holds at least one chunk once its constructor returned,
\* whatever max_chunks was passed, and in every later state.
C3_ArenasNeverEmpty ==
    harness = "cpool" => num_chunks_ >= 1

\* C4: a deallocate(addr) of a held address that returns has pushed
\* addr - first_addr onto the free stack of the chunk whose buffer holds
\* addr and has changed no other chunk, wherever the buffers lie.  Stated
\* for pools whose array holds only chunks the pool created, so that a
\* violation is one of the range test and not of a lost array element.
C4_DeallocateForwardsToOwner ==
    [][ ( /\ harness = "cpool" /\ status = "run" /\ status' = "run"
          /\ init_chunks >= 1 /\ ~ HasIndeterminate(Pool)
          /\ last'.op = "deallocate" /\ last'.arg \in live )
        => \A k \in Chunks :
             InBuffer(chunks_[k], last'.arg)
               => /\ num_chunks_' = num_chunks_
                  /\ chunks_'[k] =
                       [chunks_[k] EXCEPT !.freed_stack_ =
                          Append(@, WdSub(last'.arg, chunks_[k].mem_))]
                  /\ \A j \in 1 .. num_chunks_ : j # k => chunks_'[j] = chunks_[j]
      ]_vars

\* C5: a chunk built with budget B and slot size S never has more than
\* floor(B/S) (or 1) slots held at once, and with that many held
\* allocate() returns 0 and leaves the chunk as it is.
C5_CapacityInvariant ==
    harness = "cchunk" /\ status # "misuse"
      => LET cap == SlotsOf(ck.obj_size_, budget)
         IN  /\ Cardinality(live) <= cap
             /\ Cardinality(live) = cap
                  => cchunk_allocate(ck) = { [c |-> ck, ret |-> NULL, wild |-> FALSE] }

C5_Witness ==
    /\ harness = "cchunk" /\ status = "run"
    /\ budget % ck.obj_size_ # 0
    /\ Cardinality(live) = SlotsOf(ck.obj_size_, budget)
    /\ Cardinality(live) >= 2
    /\ last.op = "allocate" /\ last.ret = NULL
    /\ last.freed = 0

\* C6: a chunk whose bump cursor is at max_ returns the slot given back
\* most recently; after deallocate(X), deallocate(Y) on an exhausted chunk
\* the next two allocate() calls return Y and then X.
LifoPattern(i) ==
    /\ hist[i].op = "deallocate" /\ hist[i].full /\ hist[i].recent = NULL
    /\ hist[i + 1].op = "deallocate"
    /\ hist[i + 2].op = "allocate"
    /\ hist[i + 3].op = "allocate"

C6_LifoReuse ==
    harness = "cchunk" /\ status # "misuse"
      => /\ \A i \in 1 .. Len(hist) :
              (hist[i].op = "allocate" /\ hist[i].full /\ hist[i].recent # NULL)
                => hist[i].addr = hist[i].recent
         /\ \A i \in 1 .. Len(hist) - 3 :
              LifoPattern(i)
                => /\ hist[i + 2].addr = hist[i + 1].addr
                   /\ hist[i + 3].addr = hist[i].addr

C6_Witness ==
    /\ harness = "cchunk" /\ status = "run"
    /\ \E i \in 1 .. Len(hist) - 3 :
         /\ LifoPattern(i)
         /\ hist[i].addr # hist[i + 1].addr
         /\ hist[i + 2].addr = hist[i + 1].addr
         /\ hist[i + 3].addr = hist[i].addr

\* slots of one chunk of the pool
SlotsPerChunk == SlotsOf(obj_size_, IF obj_size_ > DEFAULT_CHUNK_SIZE
                                    THEN obj_size_ ELSE DEFAULT_CHUNK_SIZE)

\* allocate() calls only so far, none of them cut short
OnlyAllocated == harness = "cpool" /\ status = "run" /\ allocs >= 0

Fresh(c) ==
    /\ c.next_ = c.mem_
    /\ stack_size_(c) = 0
    /\ \A o \in cchunk_allocate(c) : o.ret = c.mem_ /\ stack_size_(o.c) = 0

C8_ReclaimSemantics ==
    (last.op = "reclaim" /\ status = "run")
      => IF harness = "cpool" THEN \A i \in Chunks : Fresh(chunks_[i])
         ELSE Fresh(ck)

C8_Witness ==
    /\ harness = "cpool" /\ status = "run"
    /\ last.op = "reclaim" /\ last.freed > 0
    /\ Cardinality(Chunks) >= 2
    /\ \A i \in Chunks : Fresh(chunks_[i])

\* C9: a chunk built with slot size S and budget B has S * floor(B/S) bytes
\* when B >= S and S bytes otherwise; a pool builds every chunk with
\* B = max(S, DEFAULT_CHUNK_SIZE), so with S > DEFAULT_CHUNK_SIZE each
\* chunk has exactly one slot.
SizedAs(c, s, b) ==
    /\ c.obj_size_ = s
    /\ c.pool_size_ = (IF b >= s THEN s * (b \div s) ELSE s)
    /\ c.pool_size_ > 0
    /\ c.max_ = WdAdd(c.mem_, Wd(c.pool_size_))

C9_ArenaSizing ==
    IF harness = "cchunk" THEN SizedAs(ck, ck.obj_size_, budget)
    ELSE /\ CHUNK_SIZE_ = (IF obj_size_ > DEFAULT_CHUNK_SIZE THEN obj_size_
                           ELSE DEFAULT_CHUNK_SIZE)
         /\ \A i \in Chunks :
              /\ SizedAs(chunks_[i], obj_size_, CHUNK_SIZE_)
              /\ obj_size_ > DEFAULT_CHUNK_SIZE => chunks_[i].pool_size_ = obj_size_

C9_Witness ==
    /\ harness = "cpool" /\ status = "run"
    /\ init_chunks >= 1
    /\ obj_size_ > DEFAULT_CHUNK_SIZE
    /\ num_chunks_ > init_chunks
    /\ \A i \in Chunks : chunks_[i].pool_size_ = obj_size_
    /\ Chunks # {}

\* C10: deallocate(addr) with an address outside the buffer of every chunk
\* of the pool changes nothing: no chunk, not the array, not
\* current_chunk_.
C10_ForeignDeallocateIsNoOp ==
    [][ ( /\ harness = "cpool" /\ status = "run"
          /\ last'.op = "deallocate"
          /\ \A i \in Chunks : ~ InBuffer(chunks_[i], last'.arg) )
        => /\ chunks_' = chunks_
           /\ num_chunks_' = num_chunks_
           /\ max_chunks_' = max_chunks_
           /\ current_chunk_' = current_chunk_
      ]_vars

\* C11: in a debug build a cchunk::deallocate(addr) that returns, with addr
\* a slot already on the free stack or an address outside the buffer,
\* leaves the free stack and the bump cursor of the chunk as they were.
C11_DebugMisuseIsNoOp ==
    [][ ( /\ harness = "cchunk" /\ ~ NDEBUG /\ status = "run"
          /\ last'.op = "deallocate" /\ last'.arg \notin live
          /\ status' # "abort" )
        => /\ ck'.freed_stack_ = ck.freed_stack_
           /\ ck'.next_ = ck.next_
      ]_vars

\* every chunk of the current state: the stand-alone one, or the chunks
\* of the pool
AllChunks ==
    IF harness = "cchunk" THEN {ck} ELSE { chunks_[i] : i \in Chunks }

\* C12: allocate() on a chunk returns the address at the bump cursor and
\* advances the cursor by obj_size_ while the cursor is below max_; only
\* with the cursor at max_ it pops the free stack; only with the stack
\* empty as well it returns 0 and leaves the chunk as it is.  Successive
\* allocations from the cursor are obj_size_ apart.
ThreeSteps(c) ==
    \A o \in cchunk_allocate(c) :
      IF WdLess(c.next_, c.max_)
      THEN /\ o.ret = c.next_
           /\ o.c = [c EXCEPT !.next_ = WdAdd(c.next_, Wd(c.obj_size_))]
      ELSE IF stack_size_(c) > 0
      THEN /\ o.c.next_ = c.next_
           /\ o.c.freed_stack_ = SubSeq(c.freed_stack_, 1, stack_size_(c) - 1)
           /\ stack_size_(c) <= c.freed_len
                => o.ret = WdAdd(c.mem_, c.freed_stack_[stack_size_(c)])
      ELSE o.ret = NULL /\ o.c = c

C12_AllocateThreeSteps ==
    /\ \A c \in AllChunks : ThreeSteps(c)
    /\ harness = "cchunk"
         => \A i \in 1 .. Len(hist) - 1 :
              ( /\ hist[i].op = "allocate" /\ ~ hist[i].full
                /\ hist[i + 1].op = "allocate" /\ ~ hist[i + 1].full )
                => hist[i + 1].addr = WdAdd(hist[i].addr, Wd(ck.obj_size_))

C12_Witness ==
    /\ harness = "cchunk" /\ status = "run" /\ Len(hist) = 4
    /\ hist[1].op = "allocate" /\ ~ hist[1].full
    /\ hist[2].op = "allocate" /\ ~ hist[2].full
    /\ hist[2].addr = WdAdd(hist[1].addr, Wd(ck.obj_size_))
    /\ hist[3].op = "deallocate"
    /\ hist[4].op = "allocate" /\ hist[4].full /\ hist[4].addr = hist[3].addr
    /\ cchunk_allocate(ck) = { [c |-> ck, ret |-> NULL, wild |-> FALSE] }

\* the slot given back most recently and not returned since, as the top
\* of the free stack denotes it
TopFreed(c) == WdAdd(c.mem_, c.freed_stack_[stack_size_(c)])

\* an allocate() call on the stand-alone chunk whose free stack is not empty
AllocateWithFreed ==
    /\ harness = "cchunk" /\ status = "run" /\ status' = "run"
    /\ last'.op = "allocate"
    /\ stack_size_(ck) > 0

\* C13 as stated: whenever the free stack of a chunk is not empty, its
\* next allocate() returns the slot given back most recently and does not
\* advance the bump cursor.
C13_FreedReusedBeforeBump ==
    [][ AllocateWithFreed
        => /\ last'.ret = TopFreed(ck)
           /\ ck'.next_ = ck.next_
      ]_vars

\* C13 as amended: with the bump cursor at max_ and a free stack that is
\* not empty, allocate() returns the slot given back most recently, takes
\* it off the stack and does not move the cursor; with the cursor below
\* max_ it returns the address at the cursor and leaves the stack as it is.
C13_FreedReusedAfterBump ==
    [][ AllocateWithFreed
        => IF WdLess(ck.next_, ck.max_)
           THEN /\ last'.ret = ck.next_
                /\ ck'.freed_stack_ = ck.freed_stack_
                /\ ck'.next_ = WdAdd(ck.next_, Wd(ck.obj_size_))
           ELSE /\ last'.ret = TopFreed(ck)
                /\ last'.ret = freed_log[Len(freed_log)]
                /\ ck'.next_ = ck.next_
                /\ stack_size_(ck') = stack_size_(ck) - 1
      ]_vars

C13_Witness ==
    /\ harness = "cchunk" /\ status = "run"
    /\ \E i, j \in 1 .. Len(hist) :
         /\ i < j
         /\ hist[i].op = "allocate" /\ ~ hist[i].full
         /\ hist[i].recent # NULL /\ hist[i].addr # hist[i].recent
         /\ hist[j].op = "allocate" /\ hist[j].full
         /\ hist[j].recent # NULL /\ hist[j].addr = hist[j].recent

\* whether allocate() on chunk c returns a slot
HasRoom(c) == WdLess(c.next_, c.max_) \/ stack_size_(c) > 0

\* the chunks of the pool that have room
WithRoom == { i \in Chunks : HasRoom(chunks_[i]) }

\* the lowest index in the set of indices S
Lowest(S) == CHOOSE i \in S : \A j \in S : i <= j

\* an allocate() call that returns, made with the current chunk exhausted
\* and another chunk that has room
SlowPathCall ==
    /\ harness = "cpool" /\ status = "run" /\ status' = "run"
    /\ last'.op = "allocate"
    /\ current_chunk_ \in Chunks
    /\ ~ HasRoom(chunks_[current_chunk_])
    /\ WithRoom # {}

\* C14: when the current chunk is exhausted, allocate() returns a slot of
\* the lowest-indexed chunk that has bump space or a freed slot, makes
\* that chunk the current one and changes no other chunk.
C14_SlowPathScanOrder ==
    [][ SlowPathCall
        => LET k == Lowest(WithRoom)
           IN  /\ \E o \in cchunk_allocate(chunks_[k]) :
                    last'.ret = o.ret /\ chunks_'[k] = o.c
               /\ current_chunk_' = k
               /\ num_chunks_' = num_chunks_
               /\ \A j \in 1 .. num_chunks_ : j # k => chunks_'[j] = chunks_[j]
      ]_vars

\* the number of slots of the chunks in cs taken together
Capacity(cs) ==
    LET F[i \in 0 .. Len(cs)] ==
          IF i = 0 THEN 0
          ELSE F[i - 1] + (IF cs[i] = Indeterminate THEN 0
                           ELSE cs[i].pool_size_ \div cs[i].obj_size_)
    IN  F[Len(cs)]

\* C15: an allocate() call that returns and has appended a chunk was made
\* with every chunk of the pool exhausted (bump cursor at max_, free stack
\* empty), the caller holding as many slots as these chunks have.
C15_GrowthOnlyWhenFull ==
    [][ ( /\ harness = "cpool" /\ status = "run" /\ status' = "run"
          /\ last'.op = "allocate"
          /\ num_chunks_' > num_chunks_ )
        => /\ \A i \in Chunks : ~ HasRoom(chunks_[i])
           /\ Cardinality(live) = Capacity(chunks_)
      ]_vars

\* a <= b for 64-bit values
WdLeq(a, b) == ~ WdLess(b, a)

\* C16: every call on a pool leaves num_chunks_ <= max_chunks_;
\* max_chunks_ changes only in a call made with num_chunks_ = max_chunks_
\* and then becomes twice what it was; a call that adds a chunk adds
\* exactly one.
C16_ArraySequenceGrowth ==
    [][ harness = "cpool"
        => /\ WdLeq(Wd(num_chunks_'), max_chunks_')
           /\ max_chunks_' # max_chunks_
                => /\ Wd(num_chunks_) = max_chunks_
                   /\ max_chunks_' = WdAdd(max_chunks_, max_chunks_)
           /\ num_chunks_' \in { num_chunks_, num_chunks_ + 1 }
      ]_vars

\* C17: every call on a pool keeps the chunks it had at their indices,
\* with the buffer start and size they had, and only allocate() changes
\* the number of chunks.
C17_ArenasAppendOnly ==
    [][ harness = "cpool"
        => /\ num_chunks_' >= num_chunks_
           /\ \A i \in Chunks :
                /\ chunks_'[i] # Indeterminate
                /\ chunks_'[i].mem_ = chunks_[i].mem_
                /\ chunks_'[i].pool_size_ = chunks_[i].pool_size_
           /\ last'.op \in {"deallocate", "reclaim"} => num_chunks_' = num_chunks_
      ]_vars

\* the calls so far deallocated only addresses the caller held, on the
\* stand-alone chunk or on a pool whose constructor created a chunk
OwnershipRespected ==
    /\ status = "run"
    /\ harness = "cpool" => init_chunks >= 1

\* whether the 64-bit value x is a multiple of s and at most b
AlignedUpTo(x, s, b) ==
    /\ x[1] = 0
    /\ IntCast(x) % s = 0
    /\ IntCast(x) <= b

\* the bump cursor and the free stack of chunk c hold offsets of slots
Aligned(c) ==
    /\ AlignedUpTo(WdSub(c.next_, c.mem_), c.obj_size_, c.pool_size_)
    /\ \A i \in 1 .. stack_size_(c) :
         AlignedUpTo(c.freed_stack_[i], c.obj_size_, c.pool_size_ - c.obj_size_)

\* C18: in every state reached by calls in which the caller deallocates
\* only addresses it holds, every chunk (the stand-alone one, each chunk
\* of a pool) has next_ - mem_ and every entry of its free stack a
\* multiple of obj_size_, and next_ - mem_ is at most pool_size_.
C18_AlignmentInvariant ==
    OwnershipRespected => \A c \in AllChunks : Aligned(c)

\* C19: in a debug build the checks that deallocate(addr) and
\* contains(addr) make on an address the chunk returned and the caller
\* still holds all pass: the assert mem_ >= addr and the range test, so a
\* call with such an address does not abort.
C19_DebugAssertsPass ==
    (harness = "cchunk" /\ ~ NDEBUG)
      => /\ \A a \in live : AssertHolds(ck, a) /\ cchunk_contains(ck, a)
         /\ (last.op \in {"deallocate", "contains"} /\ last.arg \in live)
              => status # "abort"

\* the free stack of chunk c fits its array and holds pairwise distinct
\* offsets of slots of c that the caller does not hold
StackBounded(c) ==
    /\ stack_size_(c) <= c.pool_size_ \div c.obj_size_
    /\ c.freed_len = c.pool_size_ \div c.obj_size_
    /\ \A i, j \in 1 .. stack_size_(c) :
         i # j => c.freed_stack_[i] # c.freed_stack_[j]
    /\ \A i \in 1 .. stack_size_(c) :
         /\ AlignedUpTo(c.freed_stack_[i], c.obj_size_, c.pool_size_ - c.obj_size_)
         /\ WdAdd(c.mem_, c.freed_stack_[i]) \notin live

\* C20: in every state reached by calls in which the caller deallocates
\* only addresses it holds, each at most once, every chunk has
\* stack_size_ <= pool_size_ / obj_size_ (the length of freed_stack_) and
\* its stack holds pairwise distinct offsets of slots that are not held.
C20_FreeStackBound ==
    OwnershipRespected => \A c \in AllChunks : StackBounded(c)

====
